---- MODULE Spec2Model ----
(***************************************************************************)
(* Model of server.js: the relay between a client and the two Kling        *)
(* image-to-video endpoints.  The state is the jobs file (taskId ->        *)
(* provider) and one record per in-flight inbound request; every await of  *)
(* the handlers is a point where another request may run.                  *)
(***************************************************************************)
EXTENDS Integers, Sequences, FiniteSets, TLC

\* ---------------------------------------------------------------- bounds
\* total number of inbound requests admitted in one behaviour
MaxRequests == 2

\* transport failures the network may inject in one behaviour, when requests
\* are served one at a time and when two are served concurrently
MaxFailures == 5
ConcFailures == 1

\* request slots: one serves requests one after the other, two overlap them
Slots == {1, 2}

\* ------------------------------------------------------ program constants
\* fetchJsonRetry(url, opts, retries = 3)
DefaultRetries == 3
\* sleep(900 + i * 1100)
BackoffBase == 900
BackoffStep == 1100

K25 == "kling-2.5-pro"
K21 == "kling-2.1-pro"

\* own keys of the PROVIDERS object literal
ProviderKeys == {K25, K21}

\* keys every object literal inherits from Object.prototype (a sample)
ObjectPrototypeKeys == {"constructor"}

\* PROVIDERS[key] is truthy: an own profile or an inherited member
PROVIDERS(key) == key \in ProviderKeys \cup ObjectPrototypeKeys

\* PROVIDERS[key].createUrl / .statusUrl is defined only for own profiles
HasUrl(key) == key \in ProviderKeys

\* ------------------------------------------------------------ JS values
\* A string is a sequence of tokens; " " is a blank.  A value is tagged.
Undef == [tag |-> "undef", v |-> <<>>]
Null == [tag |-> "null", v |-> <<>>]
Str(s) == [tag |-> "str", v |-> s]
Arr(a) == [tag |-> "arr", v |-> a]

\* x || "" then String(.): null, undefined and "" all become ""
StringOrEmpty(x) == IF x.tag = "str" THEN x.v ELSE <<>>

RECURSIVE TrimLeft(_)
TrimLeft(s) == IF s # <<>> /\ Head(s) = " " THEN TrimLeft(Tail(s)) ELSE s

RECURSIVE TrimRight(_)
TrimRight(s) ==
  IF s # <<>> /\ s[Len(s)] = " " THEN TrimRight(SubSeq(s, 1, Len(s) - 1)) ELSE s

Trim(s) == TrimRight(TrimLeft(s))

\* the string a token sequence denotes (tokens concatenated)
RECURSIVE Concat(_)
Concat(s) == IF s = <<>> THEN "" ELSE s[1] \o Concat(Tail(s))

\* String.prototype.toUpperCase on the strings the model uses
ToUpperCase(s) ==
  CASE s = "completed" -> "COMPLETED"
    [] s = "Completed" -> "COMPLETED"
    [] s = "failed" -> "FAILED"
    [] s = "in_progress" -> "IN_PROGRESS"
    [] s = "created" -> "CREATED"
    [] s = "undefined" -> "UNDEFINED"
    [] s = "null" -> "NULL"
    [] s = "queued" -> "QUEUED"
    [] OTHER -> s

\* String.prototype.toLowerCase on the scheme words the model uses
ToLowerCase(s) ==
  CASE s = "Bearer" -> "bearer"
    [] s = "BEARER" -> "bearer"
    [] s = "Basic" -> "basic"
    [] OTHER -> s

\* String(x): undefined -> "undefined", null -> "null"
String(x) ==
  CASE x.tag = "str" -> Concat(x.v)
    [] x.tag = "undef" -> "undefined"
    [] x.tag = "null" -> "null"
    [] OTHER -> "[object]"

\* x is truthy in JavaScript
Truthy(x) == \/ x.tag = "str" /\ Concat(x.v) # ""
             \/ x.tag = "arr"

\* ------------------------------------------------------- pure helpers
\* a key taken from the header whatever its scheme word
getApiKeyAnyScheme(h) ==
  LET hs == StringOrEmpty(h)
  IN IF ~(Len(hs) >= 2 /\ hs[2] = " ")
     THEN Null
     ELSE LET key == Trim(SubSeq(hs, 3, Len(hs)))
          IN IF Concat(key) = "" THEN Null ELSE Str(key)

\* getApiKeyFromReq: the header is a token sequence (scheme, blank, key...);
\* the key after "bearer " (any letter case), or null
getApiKeyFromReq(h) ==
  LET hs == StringOrEmpty(h)
  IN IF ~(Len(hs) >= 2 /\ ToLowerCase(hs[1]) = "bearer" /\ hs[2] = " ")
     THEN Null
     ELSE LET key == Trim(SubSeq(hs, 3, Len(hs)))
          IN IF Concat(key) = "" THEN Null ELSE Str(key)

\* normalizeStatus without the toUpperCase() call
normalizeStatusCaseSensitive(statusRaw) ==
  LET s == Concat(StringOrEmpty(statusRaw))
  IN IF s = "COMPLETED" THEN "done"
     ELSE IF s = "FAILED" THEN "error"
     ELSE IF s = "CREATED" \/ s = "IN_PROGRESS" THEN "processing"
     ELSE "processing"

\* normalizeStatus: String(statusRaw || "").toUpperCase(), then the table
normalizeStatus(statusRaw) ==
  LET s == ToUpperCase(Concat(StringOrEmpty(statusRaw)))
  IN IF s = "COMPLETED" THEN "done"
     ELSE IF s = "FAILED" THEN "error"
     ELSE IF s = "CREATED" \/ s = "IN_PROGRESS" THEN "processing"
     ELSE "processing"

\* extractGeneratedUrl taking the newest element instead of the first
extractGeneratedUrlLast(generated) ==
  IF generated.tag = "arr" /\ Len(generated.v) > 0
  THEN generated.v[Len(generated.v)] ELSE Null

\* resp?.data?.generated; first element when it is a non-empty array
extractGeneratedUrl(generated) ==
  IF generated.tag = "arr" /\ Len(generated.v) > 0 THEN generated.v[1] ELSE Null

pickProvider(p) ==
  LET key == Concat(Trim(StringOrEmpty(p)))
  IN IF PROVIDERS(key) THEN key ELSE K25

\* ------------------------------------------------------------- inputs
\* the task identifiers the upstream assigns, in the order it assigns them
TaskSeq == <<"t1", "t2">>

TaskIds == {TaskSeq[k] : k \in 1..Len(TaskSeq)}

\* :jobId path parameters a client may send that no upstream ever assigned
StrayParams == ObjectPrototypeKeys

\* Authorization headers a client can send
AuthHeaders ==
  { Undef, Str(<<"Bearer", " ", "k1">>), Str(<<"Bearer", " ", " ">>),
    Str(<<"Basic", " ", "k1">>) }

\* values of the multipart field "provider"
ProviderInputs ==
  { Undef, Str(<<>>), Str(<<K25>>), Str(<<" ", K21, " ">>), Str(<<"bogus">>),
    Str(<<"constructor">>) }

\* HTTP status codes the upstream answers with
Codes == {200, 401, 403, 404, 500}

\* values of data.status in an upstream JSON body
RawStatuses ==
  { Undef, Null, Str(<<"COMPLETED">>), Str(<<"completed">>),
    Str(<<"IN_PROGRESS">>), Str(<<"CREATED">>), Str(<<"FAILED">>),
    Str(<<"failed">>), Str(<<"queued">>) }

\* values of data.generated in an upstream JSON body
GeneratedValues ==
  { Undef, Arr(<<>>), Arr(<<Str(<<"u1">>)>>),
    Arr(<<Str(<<"u1">>), Str(<<"u2">>)>>), Arr(<<Str(<<>>)>>), Str(<<"u1">>) }

\* a response text: empty, not JSON, or a JSON object with data.* fields
Text(kind, st, gen, tid) ==
  [kind |-> kind, status |-> st, generated |-> gen, task_id |-> tid]

EmptyText == Text("empty", Undef, Undef, Undef)
RawText == Text("raw", Undef, Undef, Undef)

\* bodies of a status endpoint: every status without result, every shape of
\* data.generated with a completed status, and a result that came early
StatusTexts ==
  {EmptyText, RawText}
    \cup {Text("json", st, Undef, Undef) : st \in RawStatuses}
    \cup {Text("json", st, gen, Undef) :
            st \in {Str(<<"COMPLETED">>), Str(<<"completed">>)}, gen \in GeneratedValues}
    \cup {Text("json", Str(<<"IN_PROGRESS">>), Arr(<<Str(<<"u1">>)>>), Undef),
          Text("json", Undef, Arr(<<Str(<<"u1">>)>>), Undef)}

\* bodies of a create endpoint that carry no task identifier
CreateTexts == {EmptyText, RawText, Text("json", Undef, Undef, Undef)}

\* the body of a create endpoint that assigned task identifier t
CreatedText(t) == Text("json", Undef, Undef, Str(<<t>>))

\* bodies that come with a non-2xx answer
ErrorTexts == {RawText, Text("json", Undef, Undef, Undef)}

\* data = text ? JSON.parse(text) : {}; on a parse error {raw: text}
ParseBody(text) ==
  IF text.kind = "json" THEN text
  ELSE [kind |-> IF text.kind = "empty" THEN "json" ELSE "wrapped",
        status |-> Undef, generated |-> Undef, task_id |-> Undef]

\* Response.ok
IsOk(code) == code >= 200 /\ code <= 299

\* -------------------------------------------------------------- state
VARIABLES
  jobs,      \* content of data/jobs.json: task id -> provider, or "none"
  req,       \* per slot: the inbound request being served
  admitted,  \* number of inbound requests admitted so far
  env,       \* which environment the run is in (SeqEnv or ConcEnv)
  issued,    \* number of task identifiers the upstream has assigned
  faults     \* transport failures the network may still inject

vars == <<jobs, req, admitted, env, issued, faults>>

JobKeys == TaskIds \cup ObjectPrototypeKeys

NoJob == "none"

NoData == [kind |-> "none", status |-> Undef, generated |-> Undef, task_id |-> Undef]

NoResp ==
  [code |-> 0, error |-> "", provider |-> "", status |-> "",
   raw_status |-> Undef, videoUrl |-> Undef, jobId |-> Undef,
   detail |-> NoData]

NoOut == [provider |-> "", status |-> 0, ok |-> FALSE, data |-> NoData]

Idle ==
  [pc |-> "idle", kind |-> "", hdr |-> Undef, image |-> FALSE, taskId |-> "",
   input |-> Undef, assigned |-> "", meta |-> "null",
   provider |-> "", tryOrder |-> <<>>, idx |-> 0, i |-> 0, timer |-> FALSE,
   httpStatus |-> 0, last |-> NoOut, calls |-> <<>>, received |-> <<>>,
   sleeps |-> <<>>, wrote |-> FALSE, stored |-> FALSE, resp |-> NoResp]

InitStore ==
  /\ jobs = [t \in JobKeys |-> NoJob]
  /\ req = [s \in Slots |-> Idle]
  /\ admitted = 0

\* requests served one after the other, every input and upstream answer,
\* with the history of calls, returns and sleeps of each request recorded
SeqEnv ==
  [slots |-> {1}, failures |-> MaxFailures, history |-> TRUE,
   issued0 |-> 0..Len(TaskSeq),
   codes |-> Codes, headers |-> AuthHeaders, params |-> StrayParams,
   providers |-> ProviderInputs, statusTexts |-> StatusTexts,
   createTexts |-> CreateTexts, errorTexts |-> ErrorTexts]

\* two requests overlapping at their awaits, on fewer inputs and answers,
\* without the per-request history
ConcEnv ==
  [slots |-> Slots, failures |-> ConcFailures, history |-> FALSE,
   issued0 |-> {0, 1},
   codes |-> {200, 404}, headers |-> {Str(<<"Bearer", " ", "k1">>), Undef},
   params |-> {},
   providers |-> {Undef, Str(<<" ", K21, " ">>)},
   statusTexts |-> {Text("json", Str(<<"COMPLETED">>), Arr(<<Str(<<"u1">>)>>), Undef),
                    Text("json", Str(<<"IN_PROGRESS">>), Undef, Undef)},
   createTexts |-> {Text("json", Undef, Undef, Undef)},
   errorTexts |-> {RawText}]

\* the environment the run was started in
Env == IF env = "seq" THEN SeqEnv ELSE ConcEnv

\* a fresh process with an empty jobs file; the upstream may have assigned
\* task identifiers to an earlier process already
Init ==
  /\ InitStore
  /\ env = "seq"
  /\ issued \in Env.issued0
  /\ faults = Env.failures

InitConc ==
  /\ InitStore
  /\ env = "conc"
  /\ issued \in Env.issued0
  /\ faults = Env.failures

\* the :jobId values a client may poll: assigned identifiers and strays
Params == {TaskSeq[k] : k \in 1..issued} \cup Env.params

\* --------------------------------------------------------- jobs file
\* readJobs: the parsed file, or {} when it cannot be read
readJobs(readFails) == IF readFails THEN [t \in JobKeys |-> NoJob] ELSE jobs

\* writeJobs: replaces the file, or leaves it when the write throws
writeJobs(obj, writeFails) == IF writeFails THEN jobs ELSE obj

\* saveJob: read, set one key, write back
saveJob(taskId, provider, readFails, writeFails) ==
  writeJobs([readJobs(readFails) EXCEPT ![taskId] = provider], writeFails)

\* getJob: jobs[taskId] || null.  "rec:<p>" is an own record; "proto" is a
\* member inherited from Object.prototype (truthy, without .provider)
getJob(taskId, readFails) ==
  LET js == readJobs(readFails)
  IN IF js[taskId] # NoJob THEN js[taskId]
     ELSE IF taskId \in ObjectPrototypeKeys THEN "proto"
     ELSE "null"

\* meta?.provider ? pickProvider(meta.provider) : null
PreferredOf(meta) ==
  IF meta \in {"null", "proto"} THEN Null ELSE Str(<<pickProvider(Str(<<meta>>))>>)

\* ---------------------------------------------------- fetchJsonRetry
\* the history of a request grows by one entry, when it is recorded
Log(h, e) == IF Env.history THEN Append(h, e) ELSE h

\* the catch block with a backoff that forgets the attempt index
CatchFlatBackoff(q) ==
  [q EXCEPT !.pc = "sleep", !.timer = FALSE,
            !.sleeps = Log(@, [call |-> Len(q.calls), ms |-> BackoffBase])]

\* catch (e) { lastErr = e; await sleep(900 + i * 1100); }
Catch(q) ==
  [q EXCEPT !.pc = "sleep", !.timer = FALSE,
            !.sleeps = Log(@, [call |-> Len(q.calls),
                               ms |-> BackoffBase + q.i * BackoffStep])]

\* one iteration of the for loop up to the first await: a fresh controller
\* and timer, then fetch(url).  A profile without URL makes fetch reject.
BeginAttempt(q, cand) ==
  LET q1 == [q EXCEPT !.calls = Log(@, [provider |-> cand, i |-> q.i]),
                      !.timer = TRUE]
  IN IF HasUrl(cand) THEN [q1 EXCEPT !.pc = "fetch"] ELSE Catch(q1)

\* entry of fetchJsonRetry: let lastErr = null; i = 0
fetchJsonRetry(q, cand) == BeginAttempt([q EXCEPT !.i = 0], cand)

\* res.status(..).json(..): the handler is over, its locals are dead
Done(q, resp) ==
  [q EXCEPT !.pc = "done", !.resp = resp, !.idx = 0, !.i = 0, !.last = NoOut,
            !.httpStatus = 0, !.timer = FALSE]

\* a transport error swallowed inside the fallback loop: the next candidate
\* is tried before the handler gives up
HandlerCatchFallsBack(q) ==
  IF q.kind # "generate" /\ q.idx < Len(q.tryOrder)
  THEN BeginAttempt([q EXCEPT !.idx = q.idx + 1, !.i = 0], q.tryOrder[q.idx + 1])
  ELSE Done(q, [NoResp EXCEPT !.code = 500, !.error = "exception"])

\* the handler's catch block: res.status(500)
HandlerCatch(q) ==
  Done(q, [NoResp EXCEPT !.code = 500, !.error = "exception"])

\* ------------------------------------------- fetchStatusWithFallback
\* the candidate list with the default order pushed without the includes() tests
TryOrderNoDedup(preferredProvider) ==
  LET t0 == IF Truthy(preferredProvider) /\ PROVIDERS(Concat(preferredProvider.v))
            THEN <<Concat(preferredProvider.v)>> ELSE <<>>
  IN t0 \o <<K25, K21>>

\* the candidate list: preferred first when known, then the default order
TryOrder(preferredProvider) ==
  LET t0 == IF Truthy(preferredProvider) /\ PROVIDERS(Concat(preferredProvider.v))
            THEN <<Concat(preferredProvider.v)>> ELSE <<>>
      t1 == IF \E k \in 1..Len(t0) : t0[k] = K25 THEN t0 ELSE Append(t0, K25)
  IN IF \E k \in 1..Len(t1) : t1[k] = K21 THEN t1 ELSE Append(t1, K21)

\* the provider the request is calling now
Cand(q) == IF q.kind = "generate" THEN q.provider ELSE q.tryOrder[q.idx]

\* ----------------------------------------------------------- handlers
Saved(q, taskId, provider, rf, wf) ==
  [q |-> [q EXCEPT !.wrote = TRUE, !.stored = ~wf],
   jobs |-> saveJob(taskId, provider, rf, wf)]

Unsaved(q) == [q |-> q, jobs |-> jobs]

\* POST /generate after the create call returned r
GenerateFinish(q, r, rf, wf) ==
  IF ~r.ok
  THEN Unsaved(Done(q, [NoResp EXCEPT !.code = r.status, !.error = "Create task gagal",
                                      !.provider = q.provider, !.detail = r.data]))
  ELSE IF ~Truthy(r.data.task_id)
  THEN Unsaved(Done(q, [NoResp EXCEPT !.code = 500, !.error = "task_id tidak ditemukan",
                                      !.provider = q.provider, !.detail = r.data]))
  ELSE LET taskId == Concat(r.data.task_id.v)
       IN Saved(Done([q EXCEPT !.taskId = taskId],
                     [NoResp EXCEPT !.code = 200, !.jobId = r.data.task_id,
                                    !.provider = q.provider]),
                taskId, q.provider, rf, wf)

\* the status handler answering every upstream failure with a plain 500
StatusFinishGeneric500(q, out, rf, wf) ==
  IF ~out.ok
  THEN Unsaved(Done(q, [NoResp EXCEPT !.code = 500, !.error = "Status gagal",
                                      !.status = "error",
                                      !.provider = out.provider, !.detail = out.data]))
  ELSE LET statusRaw == out.data.status
           q1 == Done(q, [NoResp EXCEPT !.code = 200,
                                        !.status = normalizeStatus(statusRaw),
                                        !.raw_status = statusRaw,
                                        !.provider = out.provider])
       IN IF q.meta = "null" THEN Saved(q1, q.taskId, out.provider, rf, wf)
          ELSE Unsaved(q1)

\* GET /status/:jobId after fetchStatusWithFallback returned out
StatusFinish(q, out, rf, wf) ==
  IF ~out.ok
  THEN Unsaved(Done(q, [NoResp EXCEPT !.code = out.status, !.error = "Status gagal",
                                      !.status = "error",
                                      !.provider = out.provider, !.detail = out.data]))
  ELSE LET statusRaw == out.data.status
           q1 == Done(q, [NoResp EXCEPT !.code = 200,
                                        !.status = normalizeStatus(statusRaw),
                                        !.raw_status = statusRaw,
                                        !.provider = out.provider])
       IN IF q.meta = "null" THEN Saved(q1, q.taskId, out.provider, rf, wf)
          ELSE Unsaved(q1)

\* GET /result/:jobId after fetchStatusWithFallback returned out
ResultFinish(q, out, rf, wf) ==
  IF ~out.ok
  THEN Unsaved(Done(q, [NoResp EXCEPT !.code = out.status, !.error = "Result fetch gagal",
                                      !.provider = out.provider, !.detail = out.data]))
  ELSE LET statusRaw == out.data.status
           url == extractGeneratedUrl(out.data.generated)
       IN IF ToUpperCase(String(statusRaw)) # "COMPLETED"
          THEN Unsaved(Done(q, [NoResp EXCEPT !.code = 400, !.error = "Belum selesai",
                                              !.provider = out.provider,
                                              !.raw_status = statusRaw]))
          ELSE IF ~Truthy(url)
          THEN Unsaved(Done(q, [NoResp EXCEPT !.code = 400,
                                              !.error = "COMPLETED tapi generated URL kosong",
                                              !.provider = out.provider,
                                              !.detail = out.data]))
          ELSE LET q1 == Done(q, [NoResp EXCEPT !.code = 200, !.videoUrl = url,
                                                !.provider = out.provider])
               IN IF q.meta = "null" THEN Saved(q1, q.taskId, out.provider, rf, wf)
                  ELSE Unsaved(q1)

HandlerFinish(q, out, rf, wf) ==
  IF q.kind = "status" THEN StatusFinish(q, out, rf, wf) ELSE ResultFinish(q, out, rf, wf)

\* the loop body without the early return on success
fetchStatusNoShortCircuit(q, r, rf, wf) ==
  LET out == [provider |-> Cand(q), status |-> r.status, ok |-> r.ok, data |-> r.data]
      q1 == [q EXCEPT !.last = out]
  IN IF r.status = 401 \/ r.status = 403
     THEN HandlerFinish(q1, q1.last, rf, wf)
     ELSE IF q.idx < Len(q.tryOrder)
     THEN Unsaved(fetchJsonRetry([q1 EXCEPT !.idx = q.idx + 1], q.tryOrder[q.idx + 1]))
     ELSE HandlerFinish(q1, q1.last, rf, wf)

\* the loop body that breaks on 401 only
fetchStatusNoBreakOn403(q, r, rf, wf) ==
  LET out == [provider |-> Cand(q), status |-> r.status, ok |-> r.ok, data |-> r.data]
  IN IF r.ok THEN HandlerFinish(q, out, rf, wf)
     ELSE LET q1 == [q EXCEPT !.last = out]
          IN IF r.status = 401
             THEN HandlerFinish(q1, q1.last, rf, wf)
             ELSE IF q.idx < Len(q.tryOrder)
             THEN Unsaved(fetchJsonRetry([q1 EXCEPT !.idx = q.idx + 1],
                                         q.tryOrder[q.idx + 1]))
             ELSE HandlerFinish(q1, q1.last, rf, wf)

\* the loop body that keeps the first failure instead of the last
fetchStatusKeepsFirstFailure(q, r, rf, wf) ==
  LET out == [provider |-> Cand(q), status |-> r.status, ok |-> r.ok, data |-> r.data]
  IN IF r.ok THEN HandlerFinish(q, out, rf, wf)
     ELSE LET q1 == [q EXCEPT !.last = IF q.last = NoOut THEN out ELSE q.last]
          IN IF r.status = 401 \/ r.status = 403
             THEN HandlerFinish(q1, q1.last, rf, wf)
             ELSE IF q.idx < Len(q.tryOrder)
             THEN Unsaved(fetchJsonRetry([q1 EXCEPT !.idx = q.idx + 1],
                                         q.tryOrder[q.idx + 1]))
             ELSE HandlerFinish(q1, q1.last, rf, wf)

\* body of the for loop of fetchStatusWithFallback once the call returned r
fetchStatusWithFallback(q, r, rf, wf) ==
  LET out == [provider |-> Cand(q), status |-> r.status, ok |-> r.ok, data |-> r.data]
  IN IF r.ok THEN HandlerFinish(q, out, rf, wf)
     ELSE LET q1 == [q EXCEPT !.last = out]
          IN IF r.status = 401 \/ r.status = 403
             THEN HandlerFinish(q1, q1.last, rf, wf)
             ELSE IF q.idx < Len(q.tryOrder)
             THEN Unsaved(fetchJsonRetry([q1 EXCEPT !.idx = q.idx + 1],
                                         q.tryOrder[q.idx + 1]))
             ELSE HandlerFinish(q1, q1.last, rf, wf)

\* ------------------------------------------------------------ actions
Admit(s) == /\ s \in Env.slots
            /\ req[s].pc = "idle"
            /\ admitted < MaxRequests
            /\ admitted' = admitted + 1
            /\ UNCHANGED <<env, issued, faults>>

\* the network injects one transport failure
Fault == /\ faults > 0
         /\ faults' = faults - 1
         /\ UNCHANGED <<jobs, admitted, env, issued>>

Quiet == UNCHANGED <<admitted, env, issued, faults>>

\* res.status(401): no bearer credential
Unauthorized(kind, hdr) ==
  Done([Idle EXCEPT !.kind = kind, !.hdr = hdr],
       [NoResp EXCEPT !.code = 401, !.error = "API key wajib",
                      !.status = IF kind = "status" THEN "error" ELSE ""])

\* app.post("/generate"): up to the await of the create call
Generate(s) ==
  \E hdr \in Env.headers, p \in Env.providers, hasImage \in BOOLEAN :
    /\ Admit(s)
    /\ LET apiKey == getApiKeyFromReq(hdr)
           provider == pickProvider(p)
           q == [Idle EXCEPT !.kind = "generate", !.hdr = hdr, !.image = hasImage,
                             !.input = p, !.provider = provider]
       IN req' = [req EXCEPT ![s] =
            IF ~Truthy(apiKey) THEN Unauthorized("generate", hdr)
            ELSE IF ~hasImage
            THEN Done(q, [NoResp EXCEPT !.code = 400, !.error = "Image wajib."])
            ELSE fetchJsonRetry(q, provider)]
    /\ UNCHANGED jobs

\* a lookup that trusts the jobs file: only the stored provider is asked,
\* or the default one when there is no record
LookupStoredOnly(kind, hdr, taskId, rf) ==
  LET apiKey == getApiKeyFromReq(hdr)
      meta == getJob(taskId, rf)
      tryOrder == IF meta \in ProviderKeys THEN <<meta>> ELSE <<K25>>
      q == [Idle EXCEPT !.kind = kind, !.hdr = hdr, !.taskId = taskId, !.meta = meta,
                        !.tryOrder = tryOrder, !.idx = 1]
  IN IF ~Truthy(apiKey) THEN Unauthorized(kind, hdr)
     ELSE fetchJsonRetry(q, tryOrder[1])

\* the common prefix of the status and result handlers, up to the first await
Lookup(kind, hdr, taskId, rf) ==
  LET apiKey == getApiKeyFromReq(hdr)
      meta == getJob(taskId, rf)
      tryOrder == TryOrder(PreferredOf(meta))
      q == [Idle EXCEPT !.kind = kind, !.hdr = hdr, !.taskId = taskId, !.meta = meta,
                        !.tryOrder = tryOrder, !.idx = 1]
  IN IF ~Truthy(apiKey) THEN Unauthorized(kind, hdr)
     ELSE fetchJsonRetry(q, tryOrder[1])

\* app.get("/status/:jobId")
Status(s) ==
  \E hdr \in Env.headers, taskId \in Params, rf \in BOOLEAN :
    /\ Admit(s)
    /\ req' = [req EXCEPT ![s] = Lookup("status", hdr, taskId, rf)]
    /\ UNCHANGED jobs

\* app.get("/result/:jobId")
Result(s) ==
  \E hdr \in Env.headers, taskId \in Params, rf \in BOOLEAN :
    /\ Admit(s)
    /\ req' = [req EXCEPT ![s] = Lookup("result", hdr, taskId, rf)]
    /\ UNCHANGED jobs

\* the task identifiers the upstream may assign to a create call it answers
\* with code: a fresh one on success while some remain, or none
Assignable(kind, code) ==
  {""} \cup IF kind = "generate" /\ IsOk(code) /\ issued < Len(TaskSeq)
            THEN {TaskSeq[issued + 1]} ELSE {}

\* fetch resolves: the upstream's status line and headers arrived, and
\* clearTimeout(t) runs
FetchResolve(s) ==
  \E code \in Env.codes :
    \E a \in Assignable(req[s].kind, code) :
      /\ req[s].pc = "fetch"
      /\ req' = [req EXCEPT ![s] = [@ EXCEPT !.pc = "body", !.timer = FALSE,
                                             !.httpStatus = code, !.assigned = a]]
      /\ issued' = IF a = "" THEN issued ELSE issued + 1
      /\ UNCHANGED <<jobs, admitted, env, faults>>

\* fetch rejects: connection failure before any response
FetchReject(s) ==
  /\ req[s].pc = "fetch"
  /\ req' = [req EXCEPT ![s] = Catch(@)]
  /\ Fault

\* the 45 s timer fires and aborts the pending fetch
TimerFire(s) ==
  /\ req[s].pc = "fetch"
  /\ req[s].timer
  /\ req' = [req EXCEPT ![s] = Catch(@)]
  /\ Fault

\* r.text() rejects: the connection broke while the body was read
BodyFail(s) ==
  /\ req[s].pc = "body"
  /\ req' = [req EXCEPT ![s] = Catch([@ EXCEPT !.httpStatus = 0])]
  /\ Fault

\* bodies the upstream may send to request q with the status code it sent
TextsFor(q) ==
  IF ~IsOk(q.httpStatus) THEN Env.errorTexts
  ELSE IF q.kind # "generate" THEN Env.statusTexts
  ELSE IF q.assigned = "" THEN Env.createTexts
  ELSE {CreatedText(q.assigned)}

\* fetchJsonRetry treating a 5xx answer as one more failed attempt
ReturnRetryOn5xx(q0, text, rf, wf) ==
  LET r == [ok |-> IsOk(q0.httpStatus), status |-> q0.httpStatus,
            data |-> ParseBody(text)]
      q == [q0 EXCEPT !.httpStatus = 0,
                      !.received = Log(@, [call |-> Len(q0.calls), status |-> r.status,
                                           ok |-> r.ok, data |-> r.data])]
  IN IF r.status >= 500 /\ q.i + 1 < DefaultRetries
     THEN Unsaved(BeginAttempt([q EXCEPT !.i = @ + 1], Cand(q)))
     ELSE IF q.kind = "generate" THEN GenerateFinish(q, r, rf, wf)
     ELSE fetchStatusWithFallback(q, r, rf, wf)

\* r.text() resolved with text: fetchJsonRetry returns {ok, status, data} and
\* its caller runs on to the next await or to the response
Return(q0, text, rf, wf) ==
  LET r == [ok |-> IsOk(q0.httpStatus), status |-> q0.httpStatus,
            data |-> ParseBody(text)]
      q == [q0 EXCEPT !.httpStatus = 0,
                      !.received = Log(@, [call |-> Len(q0.calls), status |-> r.status,
                                          ok |-> r.ok, data |-> r.data])]
  IN IF q.kind = "generate" THEN GenerateFinish(q, r, rf, wf)
     ELSE fetchStatusWithFallback(q, r, rf, wf)

\* the body of the response arrived in full
BodyDone(s) ==
  \E text \in TextsFor(req[s]), rf \in BOOLEAN, wf \in BOOLEAN :
    /\ req[s].pc = "body"
    /\ LET n == Return(req[s], text, rf, wf)
       IN /\ req' = [req EXCEPT ![s] = n.q]
          /\ jobs' = n.jobs
    /\ Quiet

\* the backoff sleep ends, in a loop that runs while i <= retries
SleepDoneOneMore(s) ==
  /\ req[s].pc = "sleep"
  /\ LET q == [req[s] EXCEPT !.i = @ + 1]
     IN req' = [req EXCEPT ![s] =
          IF q.i <= DefaultRetries THEN BeginAttempt(q, Cand(q)) ELSE HandlerCatch(q)]
  /\ UNCHANGED jobs
  /\ Quiet

\* the backoff sleep ends: next iteration, or throw lastErr into the handler
SleepDone(s) ==
  /\ req[s].pc = "sleep"
  /\ LET q == [req[s] EXCEPT !.i = @ + 1]
     IN req' = [req EXCEPT ![s] =
          IF q.i < DefaultRetries THEN BeginAttempt(q, Cand(q)) ELSE HandlerCatch(q)]
  /\ UNCHANGED jobs
  /\ Quiet

\* the response was sent; the slot serves the next request
Recycle(s) ==
  /\ req[s].pc = "done"
  /\ req' = [req EXCEPT ![s] = Idle]
  /\ UNCHANGED jobs
  /\ Quiet

Next ==
  \E s \in Slots :
    \/ Generate(s)
    \/ Status(s)
    \/ Result(s)
    \/ FetchResolve(s)
    \/ FetchReject(s)
    \/ TimerFire(s)
    \/ BodyFail(s)
    \/ BodyDone(s)
    \/ SleepDone(s)
    \/ Recycle(s)

Spec == Init /\ [][Next]_vars

SpecConc == InitConc /\ [][Next]_vars

TypeOK ==
  /\ jobs \in [JobKeys -> ProviderKeys \cup {NoJob}]
  /\ admitted \in 0..MaxRequests
  /\ issued \in 0..Len(TaskSeq)
  /\ faults \in 0..Env.failures
  /\ \A s \in Slots : req[s].pc \in {"idle", "fetch", "body", "sleep", "done"}

\* ------------------------------------------------------------- claims
Lookups == {"status", "result"}

\* the handler ended in its catch block
Thrown(q) == q.pc = "done" /\ q.resp.error = "exception"

\* number of responses the request had received before it issued call c
ReceivedBefore(q, c) == Cardinality({k \in 1..Len(q.received) : q.received[k].call < c})

\* C1: a record of the jobs file, once written for a task identifier, is
\* never overwritten with a different provider, whatever the interleaving of
\* create, status and result requests.
C1_ProviderNeverOverwritten ==
  [][\A t \in JobKeys :
       jobs[t] # NoJob /\ jobs'[t] # NoJob => jobs'[t] = jobs[t]]_vars

\* C2: fetchStatusWithFallback calls the candidates in the order of its list
\* and, once a candidate answered in the success range, returns that candidate
\* and calls nobody else.
C2_ShortCircuitOnSuccess ==
  \A s \in Slots :
    LET q == req[s]
    IN q.kind \in Lookups =>
         /\ \A c \in 1..Len(q.calls) :
              q.calls[c].provider = q.tryOrder[1 + ReceivedBefore(q, c)]
         /\ \A k \in 1..Len(q.received) :
              q.received[k].ok =>
                /\ k = Len(q.received)
                /\ q.received[k].call = Len(q.calls)
                /\ q.pc = "done"
                /\ q.resp.provider = q.calls[Len(q.calls)].provider

C2_Witness ==
  \E s \in Slots :
    LET q == req[s]
    IN /\ q.kind = "status" /\ q.pc = "done"
       /\ q.tryOrder = <<K25, K21>>
       /\ Len(q.received) = 2
       /\ q.received[1].status = 404 /\ q.received[2].ok
       /\ q.resp.provider = K21 /\ q.resp.code = 200

\* C3: an upstream 401 or 403 ends the fallback search: the resolver returns
\* that candidate's failed response and calls no later candidate.
C3_StopOnAuthError ==
  \A s \in Slots :
    LET q == req[s]
    IN q.kind \in Lookups =>
         \A k \in 1..Len(q.received) :
           q.received[k].status \in {401, 403} =>
             /\ k = Len(q.received)
             /\ q.received[k].call = Len(q.calls)
             /\ q.pc = "done"
             /\ q.resp.code = q.received[k].status
             /\ q.resp.provider = q.calls[Len(q.calls)].provider
             /\ q.resp.provider = q.tryOrder[k]

C3_Witness ==
  \E s \in Slots :
    LET q == req[s]
    IN /\ q.kind = "status" /\ q.pc = "done"
       /\ Len(q.tryOrder) = 2
       /\ Len(q.received) = 1 /\ q.received[1].status = 403
       /\ \A c \in 1..Len(q.calls) : q.calls[c].provider = q.tryOrder[1]
       /\ q.resp.code = 403 /\ q.resp.provider = q.tryOrder[1]

\* C4: when every candidate answered outside the success range and none with
\* 401 or 403, the client gets the last candidate as provider and that
\* candidate's HTTP status code; without a record in the jobs file the last
\* candidate is kling-2.1-pro.
C4_LastFailureReported ==
  \A s \in Slots :
    LET q == req[s]
        n == Len(q.received)
    IN ( /\ q.kind \in Lookups /\ q.pc = "done"
         /\ n > 0 /\ n = Len(q.tryOrder)
         /\ \A k \in 1..n : ~q.received[k].ok /\ q.received[k].status \notin {401, 403} )
       => /\ q.resp.provider = q.tryOrder[n]
          /\ q.resp.code = q.received[n].status
          /\ q.resp.detail = q.received[n].data
          /\ q.kind = "status" => q.resp.status = "error"
          /\ q.meta = "null" => q.resp.provider = K21

C4_Witness ==
  \E s \in Slots :
    LET q == req[s]
    IN /\ q.kind = "status" /\ q.pc = "done" /\ q.meta = "null"
       /\ Len(q.received) = 2
       /\ q.received[1].status = 404 /\ q.received[2].status = 500
       /\ q.resp.code = 500 /\ q.resp.provider = K21

\* C5: fetchJsonRetry never retries after a response was received (status
\* line, headers and body text): whatever the status code, the attempt that
\* received it returns ok exactly for 200..299, and the next call of the
\* request, if any, is the first attempt of another fetchJsonRetry.
C5_NoRetryOnResponse ==
  \A s \in Slots :
    LET q == req[s]
    IN \A k \in 1..Len(q.received) :
         LET e == q.received[k]
         IN /\ e.ok <=> (e.status >= 200 /\ e.status <= 299)
            /\ e.call = Len(q.calls) \/ q.calls[e.call + 1].i = 0
            /\ \A j \in 1..Len(q.received) : q.received[j].call = e.call => j = k

C5_Witness ==
  \E s \in Slots :
    LET q == req[s]
    IN /\ q.kind = "status"
       /\ Len(q.received) >= 1
       /\ q.received[1].status = 500 /\ ~q.received[1].ok /\ q.received[1].call = 1
       /\ Len(q.calls) = 2 /\ q.calls[2].provider # q.calls[1].provider

\* C6: when every attempt of a fetchJsonRetry fails in transport, it makes
\* exactly 3 attempts (the default budget all callers use) and then throws;
\* the sleep after failed attempt i lasts 900 + i * 1100 ms.
C6_AttemptsAndBackoff ==
  \A s \in Slots :
    LET q == req[s]
        n == Len(q.calls)
    IN /\ \A c \in 1..n : q.calls[c].i < 3
       /\ \A k \in 1..Len(q.sleeps) :
            q.sleeps[k].ms = 900 + q.calls[q.sleeps[k].call].i * 1100
       /\ Thrown(q) =>
            /\ n >= 3
            /\ \A j \in 0..2 :
                 /\ q.calls[n - 2 + j].i = j
                 /\ q.calls[n - 2 + j].provider = q.calls[n].provider
                 /\ \E k \in 1..Len(q.sleeps) : q.sleeps[k].call = n - 2 + j
                 /\ \A k \in 1..Len(q.received) : q.received[k].call # n - 2 + j
       /\ ( /\ q.pc # "sleep"
            /\ \E k \in 1..Len(q.sleeps) : q.calls[q.sleeps[k].call].i = 2 )
          => Thrown(q)

C6_Witness ==
  \E s \in Slots :
    LET q == req[s]
    IN /\ Thrown(q) /\ q.kind = "status"
       /\ Len(q.calls) = 3
       /\ Len(q.sleeps) = 3
       /\ q.sleeps[1].ms = 900 /\ q.sleeps[2].ms = 2000 /\ q.sleeps[3].ms = 3100

\* C7: the backoff sleep happens between attempts only: no sleep follows the
\* last (third) failed attempt of a fetchJsonRetry.
C7_NoSleepAfterLastAttempt ==
  \A s \in Slots :
    LET q == req[s]
    IN \A k \in 1..Len(q.sleeps) :
         HasUrl(q.calls[q.sleeps[k].call].provider) =>
           q.calls[q.sleeps[k].call].i < DefaultRetries - 1

\* C8: an attempt is covered by its timeout for as long as its call is in
\* flight, before the headers and while the body is read.
C8_TimeoutCoversAttempt ==
  \A s \in Slots : req[s].pc \in {"fetch", "body"} => req[s].timer

\* C9: pickProvider yields a known provider for every input: the trimmed
\* input when that is kling-2.5-pro or kling-2.1-pro, the default
\* kling-2.5-pro otherwise.
C9_PickProviderTotal ==
  \A s \in Slots :
    LET q == req[s]
        key == Trim(StringOrEmpty(q.input))
    IN (q.kind = "generate" /\ q.provider # "") =>
         /\ q.provider \in {K25, K21}
         /\ key = <<K25>> => q.provider = K25
         /\ key = <<K21>> => q.provider = K21
         /\ key \notin {<<K25>>, <<K21>>} => q.provider = K25

\* C10: the result handler answers {videoUrl, provider} only for a 2xx
\* upstream answer whose status is COMPLETED in any letter case and whose
\* data.generated is a non-empty array, and videoUrl is then its first
\* element; a status that is not COMPLETED gives 400 with raw_status, and
\* COMPLETED with data.generated absent or empty gives 400.
C10_ResultOnlyWhenCompleted ==
  \A s \in Slots :
    LET q == req[s]
        e == q.received[Len(q.received)]
        d == e.data
        completed == d.status \in {Str(<<"COMPLETED">>), Str(<<"completed">>)}
        nonEmpty == d.generated.tag = "arr" /\ Len(d.generated.v) > 0
    IN (q.kind = "result" /\ q.pc = "done" /\ Len(q.received) > 0 /\ ~Thrown(q)) =>
         /\ (q.resp.code = 200 \/ q.resp.videoUrl # Undef) =>
              /\ e.ok /\ completed /\ nonEmpty
              /\ q.resp.code = 200
              /\ q.resp.videoUrl = d.generated.v[1]
              /\ q.resp.provider = q.calls[e.call].provider
         /\ (e.ok /\ ~completed) =>
              /\ q.resp.code = 400
              /\ q.resp.raw_status = d.status
              /\ q.resp.videoUrl = Undef
         /\ (e.ok /\ completed /\ ~nonEmpty) =>
              /\ q.resp.code = 400
              /\ q.resp.videoUrl = Undef

C10_Witness ==
  \E s \in Slots :
    LET q == req[s]
    IN /\ q.kind = "result" /\ q.pc = "done"
       /\ Len(q.received) > 0
       /\ q.received[Len(q.received)].data.status = Str(<<"completed">>)
       /\ q.received[Len(q.received)].data.generated = Arr(<<Str(<<"u1">>), Str(<<"u2">>)>>)
       /\ q.resp.code = 200
       /\ q.resp.videoUrl = Str(<<"u1">>)

\* slot s sends its response in this step
Finishes(s) == req[s].pc # "done" /\ req'[s].pc = "done"

\* C11: a non-2xx response received from the provider reaches the client
\* with the same HTTP status code and the upstream body under detail, is
\* followed by no further upstream call, and leaves the jobs file as it was;
\* for create and for the final result of a status or result resolution.
C11_UpstreamErrorPropagated ==
  [][\A s \in Slots :
       LET q == req'[s]
           n == Len(q.received)
       IN (Finishes(s) /\ n > 0 /\ ~Thrown(q) /\ ~q.received[n].ok) =>
            /\ q.resp.code = q.received[n].status
            /\ q.resp.detail = q.received[n].data
            /\ q.received[n].call = Len(q.calls)
            /\ ~q.wrote
            /\ jobs' = jobs]_vars

C11_Witness ==
  \E s \in Slots :
    LET q == req[s]
    IN /\ q.kind = "status" /\ q.pc = "done"
       /\ Len(q.received) = 2 /\ Len(q.calls) = 2
       /\ q.received[2].status = 404
       /\ q.received[2].data.kind = "wrapped"
       /\ q.resp.code = 404 /\ q.resp.detail.kind = "wrapped"
       /\ ~q.wrote

\* C12: when fetchJsonRetry used up its attempts on transport failures, the
\* error is fatal for the request: no later candidate is called, the jobs
\* file is not written and the client gets HTTP 500.
C12_TransportErrorFatal ==
  [][\A s \in Slots :
       LET q0 == req[s]
           q == req'[s]
           n == Len(q0.calls)
       IN ( /\ q0.pc = "sleep" /\ q.pc # "sleep"
            /\ n > 0 /\ q0.calls[n].i = 2 )
          => /\ Thrown(q)
             /\ q.resp.code = 500
             /\ q.calls = q0.calls
             /\ ~q.wrote
             /\ jobs' = jobs]_vars

C12_Witness ==
  \E s \in Slots :
    LET q == req[s]
    IN /\ q.kind = "status" /\ Thrown(q) /\ q.resp.code = 500
       /\ q.tryOrder = <<K25, K21>>
       /\ Len(q.calls) = 3
       /\ \A c \in 1..3 : q.calls[c].provider = K25
       /\ ~q.wrote

\* every upstream answer request q received shows a task that provider p
\* alone recognises: p answered 2xx, the other provider answered a failure
\* other than 401 and 403
OnlyRecognises(q, p) ==
  \A k \in 1..Len(q.received) :
    LET r == q.received[k]
    IN IF q.calls[r.call].provider = p THEN r.ok
       ELSE ~r.ok /\ r.status \notin {401, 403}

\* C13: for a task exactly one provider p recognises, the response to a
\* status request is determined by the upstream answers alone: provider p,
\* the raw status p answered and its normalisation, whatever the lookup in
\* the jobs file returned (the record of p, no record, or an unreadable file).
C13_SelfHealsWithoutJobMap ==
  \A s \in Slots : \A p \in ProviderKeys :
    LET q == req[s]
        n == Len(q.received)
    IN ( /\ q.kind = "status" /\ q.pc = "done"
         /\ n > 0 /\ ~Thrown(q)
         /\ OnlyRecognises(q, p) )
       => /\ q.calls[q.received[n].call].provider = p
          /\ q.resp.code = 200
          /\ q.resp.provider = p
          /\ q.resp.raw_status = q.received[n].data.status
          /\ q.resp.status = normalizeStatus(q.received[n].data.status)

C13_Witness ==
  \E s \in Slots :
    LET q == req[s]
    IN /\ q.kind = "status" /\ q.pc = "done" /\ q.meta = "null"
       /\ Len(q.received) = 2 /\ OnlyRecognises(q, K21)
       /\ q.received[1].status = 404
       /\ q.received[2].data.status = Str(<<"IN_PROGRESS">>)
       /\ q.resp.code = 200 /\ q.resp.provider = K21
       /\ q.resp.raw_status = Str(<<"IN_PROGRESS">>)
       /\ q.resp.status = "processing"

\* C14: a save for one task identifier leaves the record of every other
\* task identifier as it was, also when the read of the jobs file failed and
\* the write succeeded.
C14_SaveKeepsOtherRecords ==
  [][\A s \in Slots :
       (Finishes(s) /\ req'[s].wrote) =>
         \A t \in JobKeys \ {req'[s].taskId} : jobs'[t] = jobs[t]]_vars

\* C15: no task identifier is written to the jobs file a second time,
\* whatever the interleaving of create, status and result requests: a save
\* that reaches the file is for an identifier that has no record yet.
C15_WrittenOnce ==
  [][\A s \in Slots :
       (Finishes(s) /\ req'[s].stored) => jobs[req'[s].taskId] = NoJob]_vars

\* the raw statuses that spell COMPLETED and FAILED in any letter case
SpellCompleted == {Str(<<"COMPLETED">>), Str(<<"completed">>)}
SpellFailed == {Str(<<"FAILED">>), Str(<<"failed">>)}

\* C16: the status a status response reports is done for a raw status that
\* spells COMPLETED in any letter case, error for one that spells FAILED, and
\* processing for every other raw status: CREATED, IN_PROGRESS, null,
\* undefined and unknown strings.
C16_NormalizeStatusTable ==
  \A s \in Slots :
    LET q == req[s]
        raw == q.resp.raw_status
    IN (q.kind = "status" /\ q.pc = "done" /\ q.resp.code = 200) =>
         /\ q.resp.status \in {"processing", "done", "error"}
         /\ q.resp.status = "done" <=> raw \in SpellCompleted
         /\ q.resp.status = "error" <=> raw \in SpellFailed

C16_Witness ==
  \E s \in Slots :
    LET q == req[s]
    IN /\ q.kind = "status" /\ q.pc = "done" /\ q.resp.code = 200
       /\ q.resp.raw_status = Str(<<"failed">>)
       /\ q.resp.status = "error"

\* the request carried a bearer credential
Credentialed(q) == Truthy(getApiKeyFromReq(q.hdr))

\* C17: the candidate list of a status or result request holds each known
\* provider exactly once and nothing else: the stored provider first, then
\* the rest in the order kling-2.5-pro, kling-2.1-pro; without a stored
\* provider it is [kling-2.5-pro, kling-2.1-pro].  The jobs file only ever
\* stores known providers.
C17_CandidateList ==
  /\ \A t \in JobKeys : jobs[t] \in ProviderKeys \cup {NoJob}
  /\ \A s \in Slots :
       LET q == req[s]
       IN (q.kind \in Lookups /\ Credentialed(q)) =>
            /\ q.tryOrder = IF q.meta = K21 THEN <<K21, K25>> ELSE <<K25, K21>>
            /\ q.meta \in ProviderKeys \cup {"null", "proto"}

C17_Witness ==
  \E s \in Slots :
    LET q == req[s]
    IN /\ q.kind = "result" /\ Credentialed(q)
       /\ q.meta = K21 /\ jobs[q.taskId] = K21
       /\ q.tryOrder = <<K21, K25>>
       /\ Len(q.calls) > 0 /\ q.calls[1].provider = K21

\* call c of request q is over: its response was received or it failed
CallOver(q, c) ==
  \/ \E k \in 1..Len(q.received) : q.received[k].call = c
  \/ \E k \in 1..Len(q.sleeps) : q.sleeps[k].call = c

\* C18: a status or result request with a credential makes at least one and
\* at most six upstream calls, one after the other: every call but the last
\* is over, and the last one is in flight exactly while the request awaits
\* fetch or the body.
C18_OneToSixSequentialCalls ==
  \A s \in Slots :
    LET q == req[s]
        n == Len(q.calls)
    IN (q.kind \in Lookups /\ Credentialed(q)) =>
         /\ 1 <= n /\ n <= 2 * DefaultRetries
         /\ \A c \in 1..(n - 1) : CallOver(q, c)
         /\ CallOver(q, n) <=> q.pc \notin {"fetch", "body"}

C18_Witness ==
  \E s \in Slots :
    LET q == req[s]
    IN /\ q.kind = "status" /\ Credentialed(q) /\ q.pc = "done"
       /\ Len(q.calls) = 6
       /\ \A c \in 1..3 : q.calls[c].provider = K25 /\ q.calls[c + 3].provider = K21
       /\ \A c \in 1..6 : CallOver(q, c)

\* C19: a status request answered 2xx by provider p whose lookup found no
\* record of its task (no own entry of the jobs file under its identifier)
\* saves taskId -> p, and the file holds it unless the write fails; a status
\* or result request whose lookup found a record writes nothing.
C19_Backfill ==
  [][\A s \in Slots :
       LET q == req'[s]
       IN (Finishes(s) /\ q.kind \in Lookups /\ q.resp.code = 200) =>
            IF q.meta \in ProviderKeys
            THEN ~q.wrote /\ jobs' = jobs
            ELSE q.kind = "status" =>
                   q.wrote /\ (q.stored => jobs'[q.taskId] = q.resp.provider)]_vars

\* the Authorization headers that carry a bearer credential
BearerHeaders == {Str(<<"Bearer", " ", "k1">>)}

\* C20: a request without a bearer credential is answered 401 with no
\* upstream call and no save, on /generate, /status and /result; a /generate
\* with a credential and no image is answered 400 with no upstream call and
\* no save.
C20_NoCallWithoutCredential ==
  \A s \in Slots :
    LET q == req[s]
    IN /\ (q.kind # "" /\ q.hdr \notin BearerHeaders) =>
            /\ q.pc = "done" /\ q.resp.code = 401
            /\ q.calls = <<>> /\ ~q.wrote
       /\ (q.kind = "generate" /\ q.hdr \in BearerHeaders /\ ~q.image) =>
            /\ q.pc = "done" /\ q.resp.code = 400
            /\ q.calls = <<>> /\ ~q.wrote

C20_Witness ==
  \E s \in Slots :
    LET q == req[s]
    IN /\ q.kind = "generate" /\ q.hdr = Str(<<"Basic", " ", "k1">>)
       /\ q.pc = "done" /\ q.resp.code = 401
       /\ q.calls = <<>> /\ ~q.wrote

====
